---- MODULE Spec2Model ----
(***************************************************************************)
(* Model of the fuzz harness fuzz1.py: target resolution, run_iteration,   *)
(* record_failure and main, with forensics_logger.py as the logging sink.  *)
(*                                                                         *)
(* The targets are external code.  An invocation of a target is modelled   *)
(* by its outcome: it returns ("ok"), raises TypeError (the shape-mismatch *)
(* signal of line 194) or raises some other Exception ("ValueError").      *)
(* Exceptions outside the Exception hierarchy (KeyboardInterrupt,          *)
(* SystemExit) and failures of the file system are not modelled.           *)
(* Wall-clock values (time.time(), traceback text) and the content of the  *)
(* random inputs do not influence control flow and are left out of the     *)
(* FailureRecord.                                                          *)
(***************************************************************************)
EXTENDS Integers, Sequences, FiniteSets, TLC

(* ------------------------------------------------------------------ *)
(* Bounds                                                             *)
(* ------------------------------------------------------------------ *)

\* largest number of (module, attribute) pairs the installation offers
MaxImportable == 2

\* largest iteration count given explicitly through FUZZ_ITERATIONS
MaxIterations == 2

\* largest number of importable pairs for which the default run (FUZZ_ITERATIONS
\* unset, 300 iterations) is explored
MaxDefaultImportable == 1

\* the count of temporary files left on disk is followed up to this number
MaxFiles == 2

(* ------------------------------------------------------------------ *)
(* Target resolution (fuzz1.py 39-96)                                 *)
(* ------------------------------------------------------------------ *)

\* "no callable": the None of TARGETS
NoneFn == [module |-> "None", name |-> "None", isType |-> FALSE]

TARGET_LOOKUPS ==
  << <<"FAME_ML.py_parser", "parse_python_file">>,
     <<"FAME-ML.py_parser", "parse_python_file">>,
     <<"FAME_ML.py_parser", "getPythonParseObject">>,
     <<"FAME-ML.py_parser", "getPythonParseObject">>,
     <<"FAME_ML.lint_engine", "LintEngine">>,
     <<"FAME-ML.lint_engine", "LintEngine">>,
     <<"empirical.frequency", "compute_token_frequency">>,
     <<"empirical.frequency", "compute_token_frequency">>,
     <<"empirical.frequency", "reportProportion">>,
     <<"empirical.report", "Report">>,
     <<"mining.git_repo_miner", "mine_git_repo">>,
     <<"mining.git.repo.miner", "mine_git_repo">>,
     <<"mining.git.repo.miner", "process_repo">>,
     <<"mining.git_repo_miner", "process_repo">> >>

CanonicalNames ==
  {"parse_python_file", "LintEngine", "compute_token_frequency", "Report",
   "mine_git_repo", "reportProportion", "getPythonParseObject"}

\* TARGETS as the dictionary literal of lines 70-78 leaves it
EmptyTargets == [n \in CanonicalNames |-> NoneFn]

\* alternative attribute names tried for compute_token_frequency
FrequencyAlternatives ==
  <<"compute_token_frequency", "computeTokenFrequency", "compute_tokenfreq">>

\* every (module, attribute) pair the harness ever looks up
LookupPairs ==
  {TARGET_LOOKUPS[k] : k \in DOMAIN TARGET_LOOKUPS}
    \cup {<<"empirical.frequency", FrequencyAlternatives[k]>> :
            k \in DOMAIN FrequencyAlternatives}

\* attributes that may be classes rather than functions (isinstance(., type))
ClassAttrs == {"LintEngine", "Report"}

\* try_import: the attribute when the module imports and has it, else None.
\* inst is the set of importable pairs, types the pairs whose value is a class.
try_import(inst, types, module_name, attr) ==
  IF <<module_name, attr>> \in inst
  THEN [module |-> module_name, name |-> attr,
        isType |-> (<<module_name, attr>> \in types)]
  ELSE NoneFn

\* the loop of lines 80-85, from lookup k on
RECURSIVE ResolveLookups(_, _, _, _)
ResolveLookups(k, T, inst, types) ==
  IF k > Len(TARGET_LOOKUPS) THEN T
  ELSE LET mod  == TARGET_LOOKUPS[k][1]
           attr == TARGET_LOOKUPS[k][2]
           fn   == try_import(inst, types, mod, attr)
           T2   == IF attr \in DOMAIN T /\ T[attr] = NoneFn /\ fn # NoneFn
                   THEN [T EXCEPT ![attr] = fn]
                   ELSE T
       IN ResolveLookups(k + 1, T2, inst, types)

\* the loop of lines 90-96, from alternative k on
RECURSIVE ResolveAlternatives(_, _, _, _)
ResolveAlternatives(k, T, inst, types) ==
  IF T["compute_token_frequency"] # NoneFn \/ k > Len(FrequencyAlternatives)
  THEN T
  ELSE LET fn == try_import(inst, types, "empirical.frequency",
                            FrequencyAlternatives[k])
       IN IF fn # NoneFn
          THEN [T EXCEPT !["compute_token_frequency"] = fn]
          ELSE ResolveAlternatives(k + 1, T, inst, types)

\* TARGETS after the module-level code has run
Resolve(inst, types) ==
  ResolveAlternatives(1, ResolveLookups(1, EmptyTargets, inst, types),
                      inst, types)

\* the pairs try_import is called with by the loop of lines 80-85, from
\* lookup k on: a lookup is made only for an attribute that is a key of
\* TARGETS and still None
RECURSIVE LookupTrace(_, _, _, _)
LookupTrace(k, T, inst, types) ==
  IF k > Len(TARGET_LOOKUPS) THEN <<>>
  ELSE LET mod  == TARGET_LOOKUPS[k][1]
           attr == TARGET_LOOKUPS[k][2]
           made == attr \in DOMAIN T /\ T[attr] = NoneFn
           fn   == try_import(inst, types, mod, attr)
           T2   == IF made /\ fn # NoneFn THEN [T EXCEPT ![attr] = fn] ELSE T
       IN (IF made THEN <<TARGET_LOOKUPS[k]>> ELSE <<>>)
            \o LookupTrace(k + 1, T2, inst, types)

\* the pairs try_import is called with by the loop of lines 90-96, from
\* alternative k on, T being TARGETS when line 90 is reached
RECURSIVE AlternativesTrace(_, _, _, _)
AlternativesTrace(k, T, inst, types) ==
  IF T["compute_token_frequency"] # NoneFn \/ k > Len(FrequencyAlternatives)
  THEN <<>>
  ELSE LET q == <<"empirical.frequency", FrequencyAlternatives[k]>>
       IN IF try_import(inst, types, q[1], q[2]) # NoneFn
          THEN <<q>>
          ELSE <<q>> \o AlternativesTrace(k + 1, T, inst, types)

\* every call of try_import the module-level code makes, in order
ResolveTrace(inst, types) ==
  LookupTrace(1, EmptyTargets, inst, types)
    \o AlternativesTrace(1, ResolveLookups(1, EmptyTargets, inst, types),
                         inst, types)

(* ------------------------------------------------------------------ *)
(* Iteration count (fuzz1.py 273)                                     *)
(* ------------------------------------------------------------------ *)

Digits == <<"0", "1", "2", "3", "4", "5", "6", "7", "8", "9">>

IsDigit(c) == \E k \in DOMAIN Digits : Digits[k] = c

DigitValue(c) == (CHOOSE k \in DOMAIN Digits : Digits[k] = c) - 1

\* value of a non-empty digit string
RECURSIVE DigitsValue(_)
DigitsValue(s) ==
  IF Len(s) = 0 THEN 0
  ELSE 10 * DigitsValue(SubSeq(s, 1, Len(s) - 1)) + DigitValue(s[Len(s)])

AllDigits(s) == Len(s) > 0 /\ \A k \in DOMAIN s : IsDigit(s[k])

\* int(s) for a string s given as a sequence of characters: an optional
\* sign followed by decimal digits, anything else raises ValueError
ParseInt(s) ==
  IF AllDigits(s) THEN [ok |-> TRUE, value |-> DigitsValue(s)]
  ELSE IF Len(s) > 1 /\ s[1] = "-" /\ AllDigits(Tail(s))
       THEN [ok |-> TRUE, value |-> 0 - DigitsValue(Tail(s))]
  ELSE IF Len(s) > 1 /\ s[1] = "+" /\ AllDigits(Tail(s))
       THEN [ok |-> TRUE, value |-> DigitsValue(Tail(s))]
  ELSE [ok |-> FALSE, value |-> 0]

\* the default of os.environ.get("FUZZ_ITERATIONS", "300")
DefaultIterations == <<"3", "0", "0">>

\* os.environ.get(name, default) on the environment entry e
EnvironGet(e, default) == IF e.present THEN e.value ELSE default

\* decimal text of a natural number
RECURSIVE IntToStr(_)
IntToStr(n) ==
  IF n < 10 THEN <<Digits[n + 1]>>
  ELSE IntToStr(n \div 10) \o <<Digits[(n % 10) + 1]>>

\* the FUZZ_ITERATIONS settings explored: unset, the counts 0..MaxIterations,
\* a negative count and texts that are not integers
EnvironSettings ==
  {[present |-> FALSE, value |-> <<>>]}
    \cup {[present |-> TRUE, value |-> IntToStr(n)] : n \in 0..MaxIterations}
    \cup {[present |-> TRUE, value |-> v] :
            v \in {<<"-", "1">>, <<"a", "b", "c">>, <<>>, <<"3", ".", "5">>}}

(* ------------------------------------------------------------------ *)
(* Logging sink (fuzz1.py 22-33, forensics_logger.py, fuzz1.py 157)   *)
(* ------------------------------------------------------------------ *)

\* level of the shared logger "mlforensics" (logging.DEBUG)
DEBUG == 10

\* level of the fallback logger "fuzz_fallback"
INFO == 20

\* level of a logger.error(...) call
ERROR == 40

\* the logger is the shared one when forensics_logger imports, else the fallback
LoggerLevels == {DEBUG, INFO}

\* attributes every LogRecord already has; Logger.makeRecord refuses to let
\* an extra= key overwrite one of them (or "message", "asctime")
LogRecordAttributes ==
  {"name", "msg", "args", "levelname", "levelno", "pathname", "filename",
   "module", "exc_info", "exc_text", "stack_info", "lineno", "funcName",
   "created", "msecs", "relativeCreated", "thread", "threadName",
   "processName", "process", "message", "asctime"}

\* keys of the extra= mapping record_failure passes to logger.error
ExtraKeys == {"module", "function"}

\* logger.error(msg, extra=...) on a logger of the given level raises KeyError
\* when the call is enabled and an extra key collides with a LogRecord attribute
LoggerErrorRaises(level, extra) ==
  /\ ERROR >= level
  /\ extra \cap LogRecordAttributes # {}

(* ------------------------------------------------------------------ *)
(* State                                                              *)
(* ------------------------------------------------------------------ *)

\* outcomes of one call into a target
Outcomes == {"ok", "TypeError", "ValueError"}

\* the five try blocks of run_iteration, in source order
Blocks == 1..5

NoRecord ==
  [iteration |-> 0 - 1, module |-> "None", function |-> "None", error |-> "None"]

NoSummary ==
  [written |-> FALSE, iterations |-> 0, failures |-> 0, first_failure |-> NoRecord]

VARIABLES
  environ,      \* the FUZZ_ITERATIONS entry of os.environ
  importable,   \* (module, attribute) pairs whose lookup succeeds
  TARGETS,      \* canonical name -> resolved callable or NoneFn
  loggerLevel,  \* level of the logger object bound at import
  pc,           \* "main", "loop", "block", "record_failure", "finally", "done", "exited"
  iterations,   \* local of main
  i,            \* loop variable of main / argument of run_iteration
  pos,          \* try block of run_iteration about to run (0 outside)
  pending,      \* the record passed to record_failure
  exc,          \* exception propagating out of run_iteration / main
  FUZZ_LOG,     \* blocks appended to fuzz-results.log
  FAILURES,     \* the in-memory failure list
  summary,      \* fuzz-summary.json
  exitStatus,   \* process exit status (-1 while running)
  entered,      \* history: blocks whose target was called in this iteration
  outcomes,     \* history: outcomes of the calls carrying an input, per
                \* block, in this iteration
  raised,       \* history: exceptions that escaped a try body
  runCount,     \* history: number of run_iteration invocations
  succeeded,    \* history: some target block completed without exception
  files,        \* temporary files of rand_path on disk (counted up to MaxFiles)
  fuzz          \* the state of a run of the original script fuzz.py

vars ==
  <<environ, importable, TARGETS, loggerLevel, pc, iterations, i, pos,
    pending, exc, FUZZ_LOG, FAILURES, summary, exitStatus, entered,
    outcomes, raised, runCount, succeeded, files, fuzz>>

\* what a run of fuzz1.py's main never changes (fuzz.py is a separate script)
envVars == <<environ, importable, TARGETS, loggerLevel, fuzz>>

histVars == <<entered, outcomes, raised, succeeded>>

\* installations explored: at most MaxImportable importable pairs
Installations ==
  {S \in SUBSET LookupPairs : Cardinality(S) <= MaxImportable}

NoCalls == [b \in Blocks |-> <<>>]

\* fuzz.py not running
FuzzIdle ==
  [pc |-> "idle", targets |-> {}, i |-> 0, pos |-> 0, ran |-> 0,
   raisedNow |-> {}, segment |-> <<>>]

\* state after the module-level code of fuzz1.py has run: targets resolved,
\* fuzz-results.log truncated, FAILURES empty
Init ==
  /\ environ \in EnvironSettings
  /\ importable \in Installations
  /\ environ.present \/ Cardinality(importable) <= MaxDefaultImportable
  /\ \E types \in SUBSET {q \in importable : q[2] \in ClassAttrs} :
       TARGETS = Resolve(importable, types)
  /\ loggerLevel \in LoggerLevels
  /\ pc = "main"
  /\ iterations = 0
  /\ i = 0
  /\ pos = 0
  /\ pending = NoRecord
  /\ exc = "None"
  /\ FUZZ_LOG = <<>>
  /\ FAILURES = <<>>
  /\ summary = NoSummary
  /\ exitStatus = 0 - 1
  /\ entered = {}
  /\ outcomes = NoCalls
  /\ raised = <<>>
  /\ runCount = 0
  /\ succeeded = FALSE
  /\ files = 0
  /\ fuzz = FuzzIdle

(* ------------------------------------------------------------------ *)
(* main (fuzz1.py 272-302)                                            *)
(* ------------------------------------------------------------------ *)

\* line 273: iterations = int(os.environ.get("FUZZ_ITERATIONS", "300"));
\* a ValueError of int() is caught nowhere and ends the process
ReadIterations ==
  /\ pc = "main"
  /\ LET r == ParseInt(EnvironGet(environ, DefaultIterations))
     IN IF r.ok
        THEN /\ iterations' = r.value
             /\ pc' = "loop"
             /\ UNCHANGED <<exc, exitStatus>>
        ELSE /\ exc' = "ValueError"
             /\ pc' = "exited"
             /\ exitStatus' = 1
             /\ UNCHANGED iterations
  /\ UNCHANGED <<envVars, histVars, i, pos, pending, FUZZ_LOG, FAILURES,
                 summary, runCount, files>>

\* lines 277-279: the head of "for i in range(iterations)" and the call
ForLoop ==
  /\ pc = "loop"
  /\ IF i < iterations
     THEN /\ pc' = "block"
          /\ pos' = 1
          /\ runCount' = runCount + 1
          /\ entered' = {}
          /\ outcomes' = NoCalls
     ELSE /\ pc' = "done"
          /\ UNCHANGED <<pos, runCount, entered, outcomes>>
  /\ UNCHANGED <<envVars, iterations, i, pending, exc, FUZZ_LOG, FAILURES,
                 summary, exitStatus, raised, succeeded, files>>

\* lines 280-283: the finally clause (the sleep changes no state); an
\* exception that left run_iteration then leaves main and the process
Finally ==
  /\ pc = "finally"
  /\ IF exc # "None"
     THEN /\ pc' = "exited"
          /\ exitStatus' = 1
          /\ UNCHANGED i
     ELSE /\ pc' = "loop"
          /\ i' = i + 1
          /\ UNCHANGED exitStatus
  /\ UNCHANGED <<envVars, histVars, iterations, pos, pending, exc, FUZZ_LOG,
                 FAILURES, summary, runCount, files>>

\* lines 290-295: the summary dictionary
MakeSummary(n, failures) ==
  [written |-> TRUE, iterations |-> n, failures |-> Len(failures),
   first_failure |-> IF failures # <<>> THEN failures[1] ELSE NoRecord]

\* lines 285-302
Done ==
  /\ pc = "done"
  /\ IF FAILURES # <<>>
     THEN /\ summary' = MakeSummary(iterations, FAILURES)
          /\ exitStatus' = 1
     ELSE /\ exitStatus' = 0
          /\ UNCHANGED summary
  /\ pc' = "exited"
  /\ UNCHANGED <<envVars, histVars, iterations, i, pos, pending, exc,
                 FUZZ_LOG, FAILURES, runCount, files>>

(* ------------------------------------------------------------------ *)
(* run_iteration (fuzz1.py 163-266)                                   *)
(* ------------------------------------------------------------------ *)

\* the callable each try block of run_iteration works on (lines 166, 185,
\* 213, 231, 252); "a or b" yields b when a is None
BlockTarget(T, b) ==
  CASE b = 1 -> IF T["parse_python_file"] # NoneFn
                THEN T["parse_python_file"]
                ELSE T["getPythonParseObject"]
    [] b = 2 -> T["LintEngine"]
    [] b = 3 -> T["compute_token_frequency"]
    [] b = 4 -> T["Report"]
    [] b = 5 -> T["mine_git_repo"]

\* a record that carries the index of the following iteration
FailureRecord_OffByOne(iter, fn, e) ==
  [iteration |-> iter + 1, module |-> fn.module, function |-> fn.name,
   error |-> e]

\* the dictionary literal passed to record_failure (lines 174-182 and the
\* four like it)
FailureRecord(iter, fn, e) ==
  [iteration |-> iter, module |-> fn.module, function |-> fn.name, error |-> e]

\* a retry after any exception, not only TypeError
NeedsRetry_AnyException(out) == out # "ok"

\* line 194: the engine.run call is tried again exactly when the first call
\* raised TypeError
NeedsRetry(out) == out = "TypeError"

\* the first TypeError is what the try body ends with
RetryOutcome_KeepsFirst(out1, out2) == out1

\* lines 194-197: the except TypeError clause swallows the first exception;
\* the try body ends with whatever the second engine.run call does
RetryOutcome(out1, out2) == out2

\* a test that lets an unresolved target through
IsResolved_Always(fn) == TRUE

\* "if fn:" (lines 167, 186, 214, 232, 253): the entry of TARGETS is not None
IsResolved(fn) == fn # NoneFn

\* rand_path (lines 105-126) as far as the disk is concerned: mkstemp creates
\* a file; with make_file false it is removed again before the path is
\* returned, with make_file true it is written and left in place. n is the
\* number of such files on disk.
rand_path(n, make_file) ==
  IF make_file /\ n < MaxFiles THEN n + 1 ELSE n

\* control leaves try block b without a failure: on to the next block, or
\* run_iteration returns after the last
Continue(b) ==
  IF b = 5
  THEN pc' = "finally" /\ pos' = 0
  ELSE pc' = "block" /\ pos' = b + 1

\* "if fn:" is false: the block is skipped
Skip(b) ==
  /\ Continue(b)
  /\ UNCHANGED <<histVars, pending, files>>

\* the target of block b was called; outs are the outcomes of its calls
\* carrying an input, and the try body ended with outcome out
Attempt(b, fn, outs, out) ==
  /\ entered' = entered \cup {b}
  /\ outcomes' = [outcomes EXCEPT ![b] = outs]
  /\ IF out = "ok"
     THEN /\ Continue(b)
          /\ succeeded' = TRUE
          /\ UNCHANGED <<pending, raised>>
     ELSE /\ pc' = "record_failure"
          /\ pos' = b
          /\ pending' = FailureRecord(i, fn, out)
          /\ raised' = Append(raised, [iteration |-> i, block |-> b])
          /\ UNCHANGED succeeded

\* a block that calls its target directly with one input (lines 168-172,
\* 200, 215-218, 239, 254-256)
DirectCall(b, fn) ==
  \E out \in Outcomes : Attempt(b, fn, <<out>>, out)

\* the parts of the state no block touches
BlockFrame ==
  UNCHANGED <<envVars, iterations, i, exc, FUZZ_LOG, FAILURES, summary,
              exitStatus, runCount>>

\* lines 166-182: the path given to the parser is that of a real file in
\* about half of the calls (use_file)
ParserBlock ==
  /\ pc = "block" /\ pos = 1
  /\ LET parser_fn == BlockTarget(TARGETS, 1)
     IN IF ~IsResolved(parser_fn) THEN Skip(1)
        ELSE \E use_file \in BOOLEAN :
               /\ files' = rand_path(files, use_file)
               /\ DirectCall(1, parser_fn)
  /\ BlockFrame

\* lines 185-210: a class is instantiated and its run method called, with
\* one more call on TypeError; a function is called directly
LintEngineBlock ==
  /\ pc = "block" /\ pos = 2
  /\ LET LintEngine == BlockTarget(TARGETS, 2)
     IN IF ~IsResolved(LintEngine) THEN Skip(2)
        ELSE IF LintEngine.isType
        THEN \E ctor \in Outcomes :
               IF ctor # "ok"
               THEN Attempt(2, LintEngine, <<>>, ctor) /\ UNCHANGED files
               ELSE \E out1 \in Outcomes :
                      IF NeedsRetry(out1)
                      THEN \E out2 \in Outcomes :
                             /\ files' = rand_path(files, TRUE)
                             /\ Attempt(2, LintEngine, <<out1, out2>>,
                                        RetryOutcome(out1, out2))
                      ELSE Attempt(2, LintEngine, <<out1>>, out1)
                             /\ UNCHANGED files
        ELSE DirectCall(2, LintEngine) /\ UNCHANGED files
  /\ BlockFrame

\* lines 213-228
FrequencyBlock ==
  /\ pc = "block" /\ pos = 3
  /\ LET freq_fn == BlockTarget(TARGETS, 3)
     IN IF ~IsResolved(freq_fn) THEN Skip(3)
        ELSE DirectCall(3, freq_fn) /\ UNCHANGED files
  /\ BlockFrame

\* lines 231-249: a class is instantiated and its generate method called
\* once; a function is called directly
ReportBlock ==
  /\ pc = "block" /\ pos = 4
  /\ LET ReportCls == BlockTarget(TARGETS, 4)
     IN IF ~IsResolved(ReportCls) THEN Skip(4)
        ELSE IF ReportCls.isType
        THEN \E ctor \in Outcomes :
               IF ctor # "ok"
               THEN Attempt(4, ReportCls, <<>>, ctor) /\ UNCHANGED files
               ELSE DirectCall(4, ReportCls) /\ UNCHANGED files
        ELSE DirectCall(4, ReportCls) /\ UNCHANGED files
  /\ BlockFrame

\* lines 252-266: the path given to the miner is that of a removed file
MinerBlock ==
  /\ pc = "block" /\ pos = 5
  /\ LET miner == BlockTarget(TARGETS, 5)
     IN IF ~IsResolved(miner) THEN Skip(5)
        ELSE /\ files' = rand_path(files, FALSE)
             /\ DirectCall(5, miner)
  /\ BlockFrame

(* ------------------------------------------------------------------ *)
(* record_failure (fuzz1.py 148-157)                                  *)
(* ------------------------------------------------------------------ *)

\* lines 150-153: json.dumps(record, default=str, indent=2), repr(record)
\* when that raises
Serialize(record, dumps_ok) ==
  [format |-> IF dumps_ok THEN "json" ELSE "repr", record |-> record]

\* a recorder that loses the block
WriteBlock_Skipped(log, s) == log

\* lines 154-155: one block appended to fuzz-results.log
WriteBlock(log, s) == Append(log, s)

\* a recorder that appends the record twice
AppendFailure_Twice(failures, record) == Append(Append(failures, record), record)

\* line 156
AppendFailure(failures, record) == Append(failures, record)

\* The whole of record_failure, called from an except clause of
\* run_iteration: a KeyError of logger.error leaves record_failure, the
\* except clause and run_iteration
record_failure ==
  /\ pc = "record_failure"
  /\ \E dumps_ok \in BOOLEAN :
       FUZZ_LOG' = WriteBlock(FUZZ_LOG, Serialize(pending, dumps_ok))
  /\ FAILURES' = AppendFailure(FAILURES, pending)
  /\ pending' = NoRecord
  /\ IF LoggerErrorRaises(loggerLevel, ExtraKeys)
     THEN /\ exc' = "KeyError"
          /\ pc' = "finally"
          /\ pos' = 0
     ELSE /\ Continue(pos)
          /\ UNCHANGED exc
  /\ UNCHANGED <<envVars, iterations, i, summary, exitStatus, entered,
                 outcomes, raised, runCount, succeeded, files>>

(* ------------------------------------------------------------------ *)
(* Specification                                                      *)
(* ------------------------------------------------------------------ *)

Next ==
  \/ ReadIterations
  \/ ForLoop
  \/ ParserBlock
  \/ LintEngineBlock
  \/ FrequencyBlock
  \/ ReportBlock
  \/ MinerBlock
  \/ record_failure
  \/ Finally
  \/ Done

Spec == Init /\ [][Next]_vars

TypeOK ==
  /\ pc \in {"main", "loop", "block", "record_failure", "finally", "done",
             "exited"}
  /\ pos \in 0..5
  /\ exitStatus \in {0 - 1, 0, 1}
  /\ exc \in {"None", "KeyError", "ValueError"}
  /\ TARGETS \in [CanonicalNames -> [module : STRING, name : STRING,
                                     isType : BOOLEAN]]

(* ------------------------------------------------------------------ *)
(* The original script fuzz.py                                        *)
(*                                                                    *)
(* fuzz_log.txt is written front to back and never read, so the model *)
(* keeps its tail only: fuzz.segment holds the lines written since    *)
(* (and including) the latest "--- ITERATION i ---" marker.            *)
(* ------------------------------------------------------------------ *)

\* range(300) of line 70
FuzzIterations == 300

\* the label of the CRASH line of each try block (lines 85, 96, 107, 118, 129)
FuzzLabels ==
  <<"parse_python_file", "LintEngine.run", "compute_token_frequency",
    "Report.generate", "mine_git_repo">>

LogLine(kind, n, target) == [kind |-> kind, i |-> n, target |-> target]

\* line 68
StartedLine == LogLine("STARTED", 0 - 1, "")

\* line 71
IterationLine(n) == LogLine("ITERATION", n, "")

\* line 132
CompleteLine == LogLine("COMPLETE", 0 - 1, "")

\* an except clause that writes nothing
FuzzCatch_Silent(seg, b) == seg

\* the except clause of block b (lines 84-86 and the four like it): the
\* CRASH line, then the traceback text
FuzzCatch(seg, b) ==
  seg \o <<LogLine("CRASH", 0 - 1, FuzzLabels[b]),
            LogLine("TRACEBACK", 0 - 1, FuzzLabels[b])>>

\* the variables of the fuzz1.py run
mainVars ==
  <<environ, importable, TARGETS, loggerLevel, pc, iterations, i, pos,
    pending, exc, FUZZ_LOG, FAILURES, summary, exitStatus, entered,
    outcomes, raised, runCount, succeeded, files>>

\* fuzz.py after its imports (lines 8-31): each of the five names is the
\* imported target or None; fuzz1.py is not running
FuzzInit ==
  /\ environ = [present |-> FALSE, value |-> <<>>]
  /\ importable = {}
  /\ TARGETS = EmptyTargets
  /\ loggerLevel = DEBUG
  /\ pc = "main"
  /\ iterations = 0
  /\ i = 0
  /\ pos = 0
  /\ pending = NoRecord
  /\ exc = "None"
  /\ FUZZ_LOG = <<>>
  /\ FAILURES = <<>>
  /\ summary = NoSummary
  /\ exitStatus = 0 - 1
  /\ entered = {}
  /\ outcomes = NoCalls
  /\ raised = <<>>
  /\ runCount = 0
  /\ succeeded = FALSE
  /\ files = 0
  /\ \E T \in SUBSET Blocks :
       fuzz = [FuzzIdle EXCEPT !.pc = "start", !.targets = T]

\* lines 67-68: the log is opened for writing and the first line written
FuzzOpen ==
  /\ fuzz.pc = "start"
  /\ fuzz' = [fuzz EXCEPT !.pc = "loop", !.i = 0,
                          !.segment = <<StartedLine>>]
  /\ UNCHANGED mainVars

\* lines 70-71: the head of "for i in range(300)" and the marker of the
\* iteration; line 132 is next when the range is exhausted
FuzzForLoop ==
  /\ fuzz.pc = "loop"
  /\ IF fuzz.i < FuzzIterations
     THEN fuzz' = [fuzz EXCEPT !.pc = "block", !.pos = 1,
                              !.ran = fuzz.ran + 1, !.raisedNow = {},
                              !.segment = <<IterationLine(fuzz.i)>>]
     ELSE fuzz' = [fuzz EXCEPT !.pc = "complete"]
  /\ UNCHANGED mainVars

\* try block b: skipped when its target is None; otherwise the target is
\* called and an exception is caught and logged; the last block ends the
\* loop body
FuzzTry(b) ==
  /\ fuzz.pc = "block" /\ fuzz.pos = b
  /\ \E raises \in (IF b \in fuzz.targets THEN BOOLEAN ELSE {FALSE}) :
       LET f1 == IF raises
                 THEN [fuzz EXCEPT !.segment = FuzzCatch(fuzz.segment, b),
                                   !.raisedNow = fuzz.raisedNow \cup {b}]
                 ELSE fuzz
       IN fuzz' = IF b = 5
                  THEN [f1 EXCEPT !.pc = "loop", !.pos = 0, !.i = fuzz.i + 1]
                  ELSE [f1 EXCEPT !.pos = b + 1]
  /\ UNCHANGED mainVars

\* lines 76-86
FuzzParser == FuzzTry(1)

\* lines 91-97
FuzzLintEngine == FuzzTry(2)

\* lines 102-108
FuzzFrequency == FuzzTry(3)

\* lines 113-119
FuzzReport == FuzzTry(4)

\* lines 124-130
FuzzMiner == FuzzTry(5)

\* line 132
FuzzComplete ==
  /\ fuzz.pc = "complete"
  /\ fuzz' = [fuzz EXCEPT !.pc = "done",
                          !.segment = Append(fuzz.segment, CompleteLine)]
  /\ UNCHANGED mainVars

FuzzNext ==
  \/ FuzzOpen
  \/ FuzzForLoop
  \/ FuzzParser
  \/ FuzzLintEngine
  \/ FuzzFrequency
  \/ FuzzReport
  \/ FuzzMiner
  \/ FuzzComplete

SpecFuzz == FuzzInit /\ [][FuzzNext]_vars

(* ------------------------------------------------------------------ *)
(* Properties                                                         *)
(* ------------------------------------------------------------------ *)

\* the blocks of run_iteration whose target is resolved
ResolvedBlocks == {b \in Blocks : BlockTarget(TARGETS, b) # NoneFn}

\* the canonical names bound to a callable
ResolvedNames == {n \in CanonicalNames : TARGETS[n] # NoneFn}

\* the configured iteration count, when FUZZ_ITERATIONS (or its default) is
\* an integer
Configured == ParseInt(EnvironGet(environ, DefaultIterations))

Last(seq) == seq[Len(seq)]

\* C1: when a target raises in iteration i, run_iteration still returns
\* normally having called every resolved target, and the run goes on through
\* all later iterations.
C1_FaultIsolation ==
  /\ pc = "finally" => (exc = "None" /\ ResolvedBlocks \subseteq entered)
  /\ (pc = "exited" /\ raised # <<>>) => runCount = iterations

\* C2: at termination the exit status is 0 with no recorded failure and 1
\* with at least one, the latter reached through the DONE step that writes
\* the RunSummary.
C2_ExitStatus ==
  pc = "exited" =>
    /\ FAILURES = <<>> => exitStatus = 0
    /\ FAILURES # <<>> => (exitStatus = 1 /\ exc = "None" /\ summary.written)

\* C3: for a configured count N >= 0, run_iteration is invoked exactly N
\* times with indices 0..N-1 in order, DONE is reached and no exception
\* escapes main.
C3_RunsAllIterations ==
  (Configured.ok /\ Configured.value >= 0) =>
    /\ pc \in {"block", "record_failure", "finally"} => i = runCount - 1
    /\ pc = "exited" => (runCount = Configured.value /\ exc = "None")

\* C4: every exception that escapes a target's try body in iteration i gives
\* exactly one FailureRecord, with iteration i and the module and name of the
\* callable of that block.
C4_OneRecordPerException ==
  LET recorded == IF pc = "record_failure"
                  THEN Append(FAILURES, pending)
                  ELSE FAILURES
  IN /\ Len(recorded) = Len(raised)
     /\ \A k \in DOMAIN raised :
          LET fn == BlockTarget(TARGETS, raised[k].block)
          IN /\ recorded[k].iteration = raised[k].iteration
             /\ recorded[k].module = fn.module
             /\ recorded[k].function = fn.name
     /\ pc # "record_failure" => pending = NoRecord

\* a failure of the second iteration has been recorded
C4_Witness ==
  /\ FAILURES # <<>>
  /\ FAILURES[1].iteration = 1
  /\ raised = <<[iteration |-> 1, block |-> 3]>>

\* C5: record_failure returns normally to its caller, having appended the
\* record to the log and to the list.
C5_RecorderNeverRaises ==
  [][pc = "record_failure" =>
       /\ exc' = "None"
       /\ pc' # "exited"
       /\ Len(FUZZ_LOG') = Len(FUZZ_LOG) + 1
       /\ FAILURES' = Append(FAILURES, pending)]_vars

\* C6: in every state the Failure List has as many entries as the Failure
\* Log has blocks, entry k of the log being the serialization of entry k of
\* the list.
C6_ListMatchesLog ==
  /\ Len(FAILURES) = Len(FUZZ_LOG)
  /\ \A k \in DOMAIN FUZZ_LOG : FUZZ_LOG[k].record = FAILURES[k]

\* a record that json.dumps could not serialize is in both
C6_Witness ==
  /\ Len(FAILURES) = 1
  /\ Len(FUZZ_LOG) = 1
  /\ FUZZ_LOG[1].format = "repr"

\* C7: when the process ends with a non-empty Failure List, fuzz-summary.json
\* has been written with failures = length of the list, iterations = the
\* configured count and first_failure = the first element.
C7_SummaryWritten ==
  (pc = "exited" /\ FAILURES # <<>>) =>
    /\ summary.written
    /\ summary.failures = Len(FAILURES)
    /\ summary.iterations = iterations
    /\ summary.first_failure = FAILURES[1]

\* C8: with N >= 1, exactly one target resolved and every invocation of it
\* raising, the run ends with N log entries, a RunSummary with failures = N
\* and exit status 1.
C8_AlwaysFailingTarget ==
  ( /\ pc = "exited"
    /\ Configured.ok /\ Configured.value >= 1
    /\ Cardinality(ResolvedNames) = 1
    /\ Cardinality(ResolvedBlocks) = 1
    /\ ~succeeded ) =>
    /\ Len(FUZZ_LOG) = Configured.value
    /\ summary.written
    /\ summary.failures = Configured.value
    /\ exitStatus = 1

\* C9: when the process ends with an empty Failure List, the Failure Log is
\* empty, no RunSummary was written and the exit status is 0.
C9_CleanRun ==
  (pc = "exited" /\ FAILURES = <<>>) =>
    /\ FUZZ_LOG = <<>>
    /\ ~summary.written
    /\ exitStatus = 0

\* the record FAILURES or record_failure holds for the exception that ended
\* the try body of block b in the current iteration
Recorded(b, e) ==
  LET r == FailureRecord(i, BlockTarget(TARGETS, b), e)
  IN \/ pc = "record_failure" /\ pos = b /\ pending = r
     \/ FAILURES # <<>> /\ Last(FAILURES) = r

\* C10 as stated: any target whose first call is rejected with a shape
\* mismatch (TypeError) is called a second time in that iteration.
C10_RetryForEveryTarget ==
  \A b \in Blocks :
    (outcomes[b] # <<>> /\ outcomes[b][1] = "TypeError") =>
      Len(outcomes[b]) = 2

\* C10 amended: only a class-based LintEngine is retried: a TypeError of its
\* first run call gives exactly one more call and never a third; an exception
\* of the retry is recorded as a failure; every other target is called once
\* and its TypeError recorded at once; so no target is called more than twice
\* in an iteration.
C10_BoundedRetry ==
  \A b \in Blocks :
    LET retried == b = 2 /\ BlockTarget(TARGETS, 2).isType
                     /\ outcomes[b] # <<>> /\ outcomes[b][1] = "TypeError"
    IN /\ Len(outcomes[b]) <= 2
       /\ Len(outcomes[b]) = 2 <=> retried
       /\ (outcomes[b] # <<>> /\ Last(outcomes[b]) # "ok")
            => Recorded(b, Last(outcomes[b]))

\* the retry of a class-based LintEngine raised TypeError again and that
\* exception is in the Failure List
C10_Witness ==
  /\ outcomes[2] = <<"TypeError", "TypeError">>
  /\ FAILURES # <<>>
  /\ Last(FAILURES).function = "LintEngine"
  /\ Last(FAILURES).error = "TypeError"

\* the records written so far, the one record_failure is about to write
\* included
AllRecords ==
  {FAILURES[k] : k \in DOMAIN FAILURES}
    \cup (IF pc = "record_failure" THEN {pending} ELSE {})

\* no FailureRecord exists for the target of block b in the iteration the
\* history variables describe (the latest run_iteration call)
NoRecordFor(b) ==
  \A r \in AllRecords :
    ~ /\ r.iteration = runCount - 1
      /\ r.module = BlockTarget(TARGETS, b).module
      /\ r.function = BlockTarget(TARGETS, b).name

\* the blocks that instantiate a class and call a method of the instance
ClassBlocks == {b \in {2, 4} : BlockTarget(TARGETS, b).isType}

\* C11 as stated: every class-based target whose method raises the shape
\* mismatch (TypeError) on the first call is called again, and when that
\* second call succeeds no FailureRecord exists for it in the iteration.
C11_RetryForEveryClass ==
  \A b \in ClassBlocks :
    (outcomes[b] # <<>> /\ outcomes[b][1] = "TypeError") =>
      /\ Len(outcomes[b]) = 2
      /\ outcomes[b][2] = "ok" => NoRecordFor(b)

\* C11 amended: a class-based LintEngine whose run raises TypeError on the
\* first call and succeeds on the retry leaves no FailureRecord in that
\* iteration; a class-based Report is never retried, a TypeError of its
\* generate call is recorded as a failure.
C11_LintEngineRetrySucceeds ==
  /\ (2 \in ClassBlocks /\ outcomes[2] = <<"TypeError", "ok">>)
       => NoRecordFor(2)
  /\ (4 \in ClassBlocks /\ outcomes[4] # <<>> /\ outcomes[4][1] = "TypeError")
       => (Len(outcomes[4]) = 1 /\ Recorded(4, "TypeError"))

\* a run whose only event was a class-based LintEngine rejecting the first
\* input and accepting the second has ended without failures
C11_Witness ==
  /\ 2 \in ClassBlocks
  /\ outcomes[2] = <<"TypeError", "ok">>
  /\ pc = "exited"
  /\ FAILURES = <<>>
  /\ exitStatus = 0

\* C12: a capability whose TARGETS entry is None is never invoked and no
\* FailureRecord names it: every block entered has a resolved callable and
\* every record carries the module and name of a resolved callable.
C12_UnresolvedNeverInvoked ==
  /\ \A b \in Blocks :
       BlockTarget(TARGETS, b) = NoneFn => (b \notin entered /\ outcomes[b] = <<>>)
  /\ \A r \in AllRecords :
       /\ \E n \in ResolvedNames :
            r.module = TARGETS[n].module /\ r.function = TARGETS[n].name
       /\ \A n \in CanonicalNames \ ResolvedNames : r.function # n

\* with parse_python_file unresolved, the parser block has called
\* getPythonParseObject instead and its failure is the one recorded
C12_Witness ==
  /\ TARGETS["parse_python_file"] = NoneFn
  /\ TARGETS["LintEngine"] = NoneFn
  /\ pc = "exited"
  /\ Len(FAILURES) = 1
  /\ FAILURES[1].function = "getPythonParseObject"

\* the capability an attribute name is listed for: process_repo stands under
\* "mining git repo" in TARGET_LOOKUPS, the camel-case and short names are
\* the alternatives of compute_token_frequency
Capability(attr) ==
  CASE attr = "process_repo" -> "mine_git_repo"
    [] attr \in {"computeTokenFrequency", "compute_tokenfreq"}
         -> "compute_token_frequency"
    [] OTHER -> attr

\* every listed candidate pair, in the order of the source
AllCandidates ==
  TARGET_LOOKUPS
    \o [k \in DOMAIN FrequencyAlternatives |->
          <<"empirical.frequency", FrequencyAlternatives[k]>>]

IsCandidateOf(n) == [q \in LookupPairs |-> Capability(q[2]) = n]

\* the ordered candidates of capability n
CandidatesOf(n) ==
  LET Test(q) == IsCandidateOf(n)[q] IN SelectSeq(AllCandidates, Test)

\* the lookups actually made for capability n, in order
AttemptsFor(n) ==
  LET Test(q) == IsCandidateOf(n)[q]
  IN SelectSeq(ResolveTrace(importable, {}), Test)

IsPrefix(s, t) == Len(s) <= Len(t) /\ s = SubSeq(t, 1, Len(s))

\* C13: for each capability the candidates are looked up in list order up to
\* and including the first that succeeds and no further, the capability is
\* bound to that one, and it is left unresolved only when none of its
\* candidates is importable.
C13_FirstCandidateBinds ==
  \A n \in CanonicalNames :
    LET c    == CandidatesOf(n)
        hits == {k \in DOMAIN c : c[k] \in importable}
    IN IF hits = {}
       THEN TARGETS[n] = NoneFn /\ IsPrefix(AttemptsFor(n), c)
       ELSE LET k0 == CHOOSE k \in hits : \A h \in hits : k <= h
            IN /\ TARGETS[n].module = c[k0][1]
               /\ TARGETS[n].name = c[k0][2]
               /\ AttemptsFor(n) = SubSeq(c, 1, k0)

\* C14: the iteration count is the value of FUZZ_ITERATIONS when that is an
\* integer and 300 when the variable is unset or not an integer; reading it
\* never fails.
C14_DefaultOnInvalid ==
  pc # "main" =>
    /\ exc # "ValueError"
    /\ iterations =
         IF environ.present /\ ParseInt(environ.value).ok
         THEN ParseInt(environ.value).value
         ELSE ParseInt(DefaultIterations).value

\* C15: when a call of run_iteration has ended, every capability bound in
\* TARGETS has been invoked in it.
C15_EveryResolvedInvoked ==
  pc = "finally" =>
    \A n \in ResolvedNames :
      \E b \in entered : BlockTarget(TARGETS, b) = TARGETS[n]

\* C16: once an iteration has finished, none of the temporary files it
\* materialized is left on disk.
C16_NoFilesBetweenIterations ==
  pc \in {"loop", "done", "exited"} => files = 0

\* the block of run_iteration whose callable record r names
BlockOf(r) ==
  CHOOSE b \in Blocks :
    /\ BlockTarget(TARGETS, b).module = r.module
    /\ BlockTarget(TARGETS, b).name = r.function

CrashLabels(seg) ==
  LET IsCrash(l) == l.kind = "CRASH"
      crashes == SelectSeq(seg, IsCrash)
  IN [k \in DOMAIN crashes |-> crashes[k].target]

\* the labels of the blocks in S, in block order
RECURSIVE LabelsOf(_, _)
LabelsOf(b, S) ==
  IF b > 5 THEN <<>>
  ELSE (IF b \in S THEN <<FuzzLabels[b]>> ELSE <<>>) \o LabelsOf(b + 1, S)

\* C18: fuzz.py runs iterations 0..299 in order whatever the targets raise;
\* the marker of an iteration is written before its CRASH lines, there is
\* one CRASH line per target that raised, and the COMPLETE line is the last
\* line of the log.
C18_FuzzLogProtocol ==
  /\ fuzz.pc = "block" =>
       /\ fuzz.i = fuzz.ran - 1
       /\ fuzz.i \in 0..(FuzzIterations - 1)
  /\ (fuzz.pc \in {"block", "loop", "complete"} /\ fuzz.ran > 0) =>
       /\ fuzz.segment[1] = IterationLine(fuzz.ran - 1)
       /\ \A k \in 2..Len(fuzz.segment) :
            fuzz.segment[k].kind \in {"CRASH", "TRACEBACK"}
       /\ CrashLabels(fuzz.segment) = LabelsOf(1, fuzz.raisedNow)
  /\ fuzz.pc = "done" =>
       /\ fuzz.ran = FuzzIterations
       /\ fuzz.i = FuzzIterations
       /\ Last(fuzz.segment) = CompleteLine
       /\ CrashLabels(fuzz.segment) = LabelsOf(1, fuzz.raisedNow)

\* the run is complete and in its last iteration the lint engine and the
\* miner raised
C18_Witness ==
  /\ fuzz.pc = "done"
  /\ fuzz.ran = FuzzIterations
  /\ fuzz.raisedNow = {2, 5}
  /\ Len(fuzz.segment) = 6

====
